---------------------------- MODULE Spec2Model ----------------------------
(***************************************************************************)
(* Model of bin/fetch_scholar_bibtex.py: load the Scholar user id, fetch   *)
(* the author's publications, sort them by year, enrich every record       *)
(* (entry type / key backfill, html badge, DOI inference and overrides,    *)
(* badge flags, google_scholar_id, field exclusion, abbreviation),         *)
(* serialize it, and write the joined document.                            *)
(*                                                                         *)
(* Python strings are sequences of one-character strings, so that          *)
(* lower(), split(), the regular expressions and the substring tests are   *)
(* computed and not assumed.  A dict is a function whose DOMAIN is the     *)
(* set of its keys.                                                        *)
(***************************************************************************)
EXTENDS Integers, Sequences, FiniteSets, TLC

VARIABLES
    pc,              \* position in update_bibtex
    config,          \* what load_scholar_user_id found in _data/socials.yml
    hash_seed,       \* the per-process salt of Python's str hash
    fetched,         \* author["publications"] as returned by scholarly.fill
    publications,    \* author["publications"] after the in-place sort
    idx,             \* index of the next pub of the for loop (1-based)
    bibtex_entries,  \* the list of serialized records
    outcomes,        \* per processed pub: how its loop iteration ended
    calls,           \* the arguments of every scholarly.bibtex call so far
    output_file,     \* content of _bibliography/papers.bib
    write_attempted, \* whether open(output_file, "w") was executed
    exit_code,       \* process exit status, NoExit while running
    env              \* what the collaborators did: the author fetch and the write

vars == <<pc, config, hash_seed, fetched, publications, idx, bibtex_entries,
          outcomes, calls, output_file, write_attempted, exit_code, env>>

-----------------------------------------------------------------------------
(* Bounds of the model *)

\* longest list of small publications returned by the author fetch
MaxPubs == 2
\* number of distinct values of the (abstracted) 64-bit hash
HashMod == 1009
\* number of distinct hash salts
MaxSeed == 1

-----------------------------------------------------------------------------
(* Characters and Python str methods *)

UpperLetters == <<"A","B","C","D","E","F","G","H","I","J","K","L","M","N","O","P","Q","R","S","T","U","V","W","X","Y","Z">>
LowerLetters == <<"a","b","c","d","e","f","g","h","i","j","k","l","m","n","o","p","q","r","s","t","u","v","w","x","y","z">>
DigitChars == <<"0","1","2","3","4","5","6","7","8","9">>
Range(s) == {s[i] : i \in 1..Len(s)}
Whitespace == {" ", "\t"}

IndexIn(c, s) == CHOOSE i \in 1..Len(s) : s[i] = c

\* str.isupper() of one character
IsUpper(c) == c \in Range(UpperLetters)
IsDigit(c) == c \in Range(DigitChars)
\* the class [a-zA-Z0-9]
IsAlnum(c) == c \in Range(UpperLetters) \cup Range(LowerLetters) \cup Range(DigitChars)
\* the class [-._;()/:a-zA-Z0-9] of the DOI regular expression
IsDoiSuffixChar(c) == IsAlnum(c) \/ c \in {"-", ".", "_", ";", "(", ")", "/", ":"}

LowerChar(c) == IF c \in Range(UpperLetters) THEN LowerLetters[IndexIn(c, UpperLetters)] ELSE c
UpperChar(c) == IF c \in Range(LowerLetters) THEN UpperLetters[IndexIn(c, LowerLetters)] ELSE c
\* str.lower(), str.upper()
Lower(s) == [i \in 1..Len(s) |-> LowerChar(s[i])]
Upper(s) == [i \in 1..Len(s) |-> UpperChar(s[i])]

\* needle in hay
Contains(hay, needle) ==
    \E i \in 0..(Len(hay) - Len(needle)) :
        \A j \in 1..Len(needle) : hay[i + j] = needle[j]

\* str.split(sep) for a one-character sep: empty pieces are kept
RECURSIVE SplitOn(_, _)
SplitOn(s, sep) ==
    IF \A i \in 1..Len(s) : s[i] # sep THEN <<s>>
    ELSE LET k == CHOOSE i \in 1..Len(s) : s[i] = sep /\ \A j \in 1..(i - 1) : s[j] # sep
         IN <<SubSeq(s, 1, k - 1)>> \o SplitOn(SubSeq(s, k + 1, Len(s)), sep)

\* str.split(): runs of whitespace separate, no empty pieces
RECURSIVE SplitWhitespace(_)
SplitWhitespace(s) ==
    IF s = <<>> THEN <<>>
    ELSE IF s[1] \in Whitespace THEN SplitWhitespace(Tail(s))
    ELSE LET ends == {i \in 1..Len(s) : \A j \in 1..i : s[j] \notin Whitespace}
             k == CHOOSE i \in ends : \A j \in ends : j <= i
         IN <<SubSeq(s, 1, k)>> \o SplitWhitespace(SubSeq(s, k + 1, Len(s)))

\* str(n) for an integer n >= 0
RECURSIVE Str(_)
Str(n) == IF n < 10 THEN <<DigitChars[n + 1]>> ELSE Str(n \div 10) \o <<DigitChars[(n % 10) + 1]>>

Abs(n) == IF n < 0 THEN -n ELSE n

\* int(s) of a str: optional surrounding whitespace, optional sign, digits
RECURSIVE DigitsValue(_)
DigitsValue(s) == IF s = <<>> THEN 0 ELSE 10 * DigitsValue(SubSeq(s, 1, Len(s) - 1)) + (IndexIn(s[Len(s)], DigitChars) - 1)
RECURSIVE Strip(_)
Strip(s) ==
    IF s # <<>> /\ s[1] \in Whitespace THEN Strip(Tail(s))
    ELSE IF s # <<>> /\ s[Len(s)] \in Whitespace THEN Strip(SubSeq(s, 1, Len(s) - 1))
    ELSE s
IntParses(s) ==
    LET t == Strip(s)
        d == IF t # <<>> /\ t[1] \in {"+", "-"} THEN Tail(t) ELSE t
    IN d # <<>> /\ \A i \in 1..Len(d) : IsDigit(d[i])
IntValue(s) ==
    LET t == Strip(s)
    IN IF t[1] = "-" THEN -DigitsValue(Tail(t))
       ELSE IF t[1] = "+" THEN DigitsValue(Tail(t))
       ELSE DigitsValue(t)


-----------------------------------------------------------------------------
(* Python values and dicts *)

\* None: the one value of the model that is not a str
NoneVal == <<"None">>
IsStr(v) == v # NoneVal
\* truth value of a str or None
Truthy(v) == v # NoneVal /\ v # <<>>

Has(d, k) == k \in DOMAIN d
\* d.get(k, default) and d.get(k)
GetOr(d, k, default) == IF k \in DOMAIN d THEN d[k] ELSE default
Get(d, k) == GetOr(d, k, NoneVal)
\* d[k] = v
Put(d, k, v) == [x \in (DOMAIN d) \cup {k} |-> IF x = k THEN v ELSE d[x]]
PutBib(pub, k, v) == [pub EXCEPT !.bib = Put(pub.bib, k, v)]

\* hash(v): salted per process for a non-empty str, 0 for the empty str; the
\* 64-bit signed range is abstracted to HashMod values around 0
AllChars == UpperLetters \o LowerLetters \o DigitChars \o <<" ","-",".","_",";","(",")","/",":",",">>
CharCode(c) == IF c \in Range(AllChars) THEN IndexIn(c, AllChars) ELSE 0
RECURSIVE CodeSum(_)
CodeSum(s) == IF s = <<>> THEN 0 ELSE CharCode(s[1]) + CodeSum(Tail(s))
Hash(v, seed) ==
    IF v = <<>> THEN 0
    ELSE IF v = NoneVal THEN ((seed + 1) % HashMod) - (HashMod \div 2)
    ELSE ((seed + CodeSum(v)) % HashMod) - (HashMod \div 2)

-----------------------------------------------------------------------------
(* Enrichment steps of one filled publication, lines 61-157 *)

\* lines 62-63
BackfillEntryType(pub) ==
    IF ~Has(pub.bib, "ENTRYTYPE") THEN PutBib(pub, "ENTRYTYPE", <<"a","r","t","i","c","l","e">>) ELSE pub

\* line 65, the value of the 'or' chain
FallbackId(pub, seed) ==
    IF Truthy(Get(pub.top, "author_pub_id")) THEN pub.top["author_pub_id"]
    ELSE IF Truthy(Get(pub.top, "pub_id")) THEN pub.top["pub_id"]
    ELSE <<"p","u","b","_">> \o Str(Abs(Hash(Get(pub.bib, "title"), seed)))

\* a backfill that replaces a key the source supplied
BackfillIdAlways(pub, seed) == PutBib(pub, "ID", FallbackId(pub, seed))

\* lines 64-65
BackfillId(pub, seed) ==
    IF ~Has(pub.bib, "ID") THEN PutBib(pub, "ID", FallbackId(pub, seed)) ELSE pub

\* lines 69-70
HtmlBadge(pub) ==
    IF Has(pub.top, "pub_url") THEN PutBib(pub, "html", pub.top["pub_url"]) ELSE pub

\* the regular expression (10\.\d{4,9}/[-._;()/:a-zA-Z0-9]+) anchored at i:
\* the length of its greedy match, 0 when it does not match there
DoiMatchLenAt(u, i) ==
    IF ~(i + 2 <= Len(u) /\ u[i] = "1" /\ u[i + 1] = "0" /\ u[i + 2] = ".") THEN 0
    ELSE LET digs == {n \in 0..(Len(u) - i - 2) : \A j \in 1..n : IsDigit(u[i + 2 + j])}
             d == CHOOSE n \in digs : \A m \in digs : m <= n
             slash == i + 3 + d
             sufs == {n \in 0..(Len(u) - slash) : \A j \in 1..n : IsDoiSuffixChar(u[slash + j])}
             e == CHOOSE n \in sufs : \A m \in sufs : m <= n
         IN IF d >= 4 /\ d <= 9 /\ slash <= Len(u) /\ u[slash] = "/" /\ e >= 1
            THEN 3 + d + 1 + e
            ELSE 0

\* re.search: group(1) of the leftmost match, NoneVal when there is none
doi_match(u) ==
    LET starts == {i \in 1..Len(u) : DoiMatchLenAt(u, i) > 0}
    IN IF starts = {} THEN NoneVal
       ELSE LET i == CHOOSE k \in starts : \A m \in starts : k <= m
            IN SubSeq(u, i, i + DoiMatchLenAt(u, i) - 1)

\* re.match(r'^[a-zA-Z0-9]+$', suffix)
IsAlnumWord(s) == s # <<>> /\ \A i \in 1..Len(s) : IsAlnum(s[i])

\* lines 80-88: the DOI built from an RSC landing page, NoneVal when the rule
\* does not apply
RscDoi(u) ==
    IF ~Contains(u, <<"p","u","b","s",".","r","s","c",".","o","r","g">>) THEN NoneVal
    ELSE LET parts == SplitOn(u, "/")
             suffix == parts[Len(parts)]
         IN IF IsAlnumWord(suffix) THEN <<"1","0",".","1","0","3","9","/">> \o Upper(suffix) ELSE NoneVal

\* an inference that does not look for an existing doi
InferDoiUnguarded(pub) ==
    IF Has(pub.top, "pub_url") /\ IsStr(pub.top["pub_url"])
    THEN LET u == pub.top["pub_url"]
         IN IF doi_match(u) # NoneVal THEN PutBib(pub, "doi", doi_match(u))
            ELSE IF RscDoi(u) # NoneVal THEN PutBib(pub, "doi", RscDoi(u))
            ELSE pub
    ELSE pub

\* line 77 raises TypeError when pub_url is not a str
InferDoiRaises(pub) ==
    ~Has(pub.bib, "doi") /\ Has(pub.top, "pub_url") /\ ~IsStr(pub.top["pub_url"])

\* lines 73-88
InferDoi(pub) ==
    IF ~Has(pub.bib, "doi") /\ Has(pub.top, "pub_url")
    THEN LET u == pub.top["pub_url"]
         IN IF doi_match(u) # NoneVal THEN PutBib(pub, "doi", doi_match(u))
            ELSE IF RscDoi(u) # NoneVal THEN PutBib(pub, "doi", RscDoi(u))
            ELSE pub
    ELSE pub

\* lines 91 and 107 raise AttributeError when the title is not a str
TitleRaises(pub) == ~IsStr(GetOr(pub.bib, "title", <<>>))
\* a title compared without lowercasing it
title_as_written(pub) == GetOr(pub.bib, "title", <<>>)
\* lines 91 and 107
title_lower(pub) == Lower(GetOr(pub.bib, "title", <<>>))

\* lines 92-99: the table of manual overrides, in source order
ManualDois ==
    << <<<<"r","i","v","e","r"," ","d","e","b","r","i","s"," ","d","e","t","e","c","t","i","o","n">>, <<"1","0",".","1","0","1","6","/","j",".","j","a","g",".","2","0","2","2",".","1","0","2","6","8","2">>>>,
       <<<<"i","n","t","r","u","s","i","o","n"," ","d","e","t","e","c","t","i","o","n"," ","i","n"," ","s","o","f","t","w","a","r","e","-","d","e","f","i","n","e","d"," ","n","e","t","w","o","r","k","s">>, <<"1","0",".","1","1","0","9","/","I","C","M","L","C","N","6","4","9","9","5",".","2","0","2","5",".","1","1","1","4","0","4","7","3">>>>,
       <<<<"p","r","i","s","m",":"," ","p","e","r","i","o","d","i","c"," ","r","e","p","r","e","s","e","n","t","a","t","i","o","n"," ","w","i","t","h"," ","m","u","l","t","i","s","c","a","l","e">>, <<"1","0",".","2","1","2","0","3","/","r","s",".","3",".","r","s","-","7","8","2","8","8","5","5","/","v","1">>>> >>

RECURSIVE ApplyOverrides(_, _)
ApplyOverrides(pub, k) ==
    IF k > Len(ManualDois) THEN pub
    ELSE ApplyOverrides(
            IF Contains(title_lower(pub), ManualDois[k][1]) /\ ~Has(pub.bib, "doi")
            THEN PutBib(pub, "doi", ManualDois[k][2]) ELSE pub,
            k + 1)

\* lines 91-99
ManualOverrides(pub) == ApplyOverrides(pub, 1)

\* lines 102-111
BadgeFlags(pub) ==
    LET off == Contains(title_lower(pub), <<"g","a","r","b","a","g","e"," ","a","n","d"," ","d","e","b","r","i","s"," ","i","d","e","n","t","i","f","i","c","a","t","i","o","n">>)
               \/ Contains(title_lower(pub), <<"p","a","r","a","m","e","t","e","r","s"," ","e","s","t","i","m","a","t","i","o","n"," ","f","r","o","m"," ","r","e","m","o","t","e"," ","s","e","n","s","i","n","g">>)
        flag == IF off THEN <<"f","a","l","s","e">> ELSE <<"t","r","u","e">>
    IN [pub EXCEPT !.bib = Put(Put(Put(pub.bib, "bibtex_show", <<"t","r","u","e">>),
                                   "altmetric", flag), "dimensions", flag)]

\* lines 127-131
ScholarId(pub) ==
    LET author_pub_id == Get(pub.top, "author_pub_id")
    IN IF Truthy(author_pub_id) /\ Contains(author_pub_id, <<":">>)
       THEN PutBib(pub, "google_scholar_id", SplitOn(author_pub_id, ":")[2])
       ELSE IF Truthy(author_pub_id)
       THEN PutBib(pub, "google_scholar_id", author_pub_id)
       ELSE pub

\* line 136
keys_to_remove == {"pdf", "video", "inspirehep_id"}

\* an exclusion that forgets inspirehep_id
ExcludeSomeKeys(pub) == [pub EXCEPT !.bib = [x \in (DOMAIN pub.bib) \ {"pdf", "video"} |-> pub.bib[x]]]

\* lines 137-139
ExcludeKeys(pub) == [pub EXCEPT !.bib = [x \in (DOMAIN pub.bib) \ keys_to_remove |-> pub.bib[x]]]

\* line 143
venue(pub) ==
    IF Truthy(Get(pub.bib, "journal")) THEN pub.bib["journal"]
    ELSE IF Truthy(Get(pub.bib, "conference")) THEN pub.bib["conference"]
    ELSE Get(pub.bib, "publisher")

\* line 152: "".join([w[0] for w in words if w and w[0].isupper()])
RECURSIVE Initials(_)
Initials(words) ==
    IF words = <<>> THEN <<>>
    ELSE (IF Head(words) # <<>> /\ IsUpper(Head(words)[1]) THEN <<Head(words)[1]>> ELSE <<>>)
         \o Initials(Tail(words))

\* a cut that keeps one character too many
TruncateEleven(abbr) == IF Len(abbr) > 10 THEN SubSeq(abbr, 1, 11) ELSE abbr

\* lines 155-156
Truncate(abbr) == IF Len(abbr) > 10 THEN SubSeq(abbr, 1, 10) ELSE abbr

\* lines 144-157
Abbreviation(pub) ==
    LET v == venue(pub)
    IN IF ~Truthy(v) THEN pub
       ELSE IF Contains(Lower(v), <<"a","r","x","i","v">>) THEN PutBib(pub, "abbr", <<"a","r","X","i","v">>)
       ELSE LET abbr == Initials(SplitWhitespace(v))
            IN IF abbr # <<>> THEN PutBib(pub, "abbr", Truncate(abbr)) ELSE pub

\* lines 61-157 raise
EnrichRaises(pub, seed) ==
    \/ InferDoiRaises(HtmlBadge(BackfillId(BackfillEntryType(pub), seed)))
    \/ TitleRaises(pub)

\* lines 61-157: the record handed to scholarly.bibtex
Enrich(pub, seed) ==
    Abbreviation(ExcludeKeys(ScholarId(BadgeFlags(ManualOverrides(InferDoi(
        HtmlBadge(BackfillId(BackfillEntryType(pub), seed))))))))

-----------------------------------------------------------------------------
(* Sorting, serialization and the output document *)

\* lines 48-52
get_year(pub) ==
    IF ~Has(pub.bib, "pub_year") THEN 0
    ELSE LET y == pub.bib["pub_year"]
         IN IF IsStr(y) /\ IntParses(y) THEN IntValue(y) ELSE 0

\* a descending sort that reverses the records of equal year
SortedInsertUnstable(lst, x) ==
    LET k == Cardinality({i \in 1..Len(lst) : get_year(lst[i]) > get_year(x)})
    IN SubSeq(lst, 1, k) \o <<x>> \o SubSeq(lst, k + 1, Len(lst))

\* list.sort(key=get_year, reverse=True) is stable: x goes after every element
\* whose year is not smaller
SortedInsert(lst, x) ==
    LET k == Cardinality({i \in 1..Len(lst) : get_year(lst[i]) >= get_year(x)})
    IN SubSeq(lst, 1, k) \o <<x>> \o SubSeq(lst, k + 1, Len(lst))

RECURSIVE SortByYear(_)
\* line 54
SortByYear(lst) ==
    IF lst = <<>> THEN <<>>
    ELSE SortedInsert(SortByYear(SubSeq(lst, 1, Len(lst) - 1)), lst[Len(lst)])

\* line 160, scholarly.bibtex: one entry @ENTRYTYPE{ID, field = {value}, ...}
Serialize(pub) ==
    [entrytype |-> pub.bib["ENTRYTYPE"],
     key |-> pub.bib["ID"],
     fields |-> [k \in (DOMAIN pub.bib) \ {"ENTRYTYPE", "ID"} |-> pub.bib[k]]]

\* bibtexparser cannot write an entry without ENTRYTYPE or ID
SerializeRaises(pub) == ~Has(pub.bib, "ENTRYTYPE") \/ ~Has(pub.bib, "ID")

\* the pieces of the document: an entry's text, or the separator "\n\n"
EntryChunk(e) == [blank |-> FALSE, entry |-> <<e>>]
BlankLine == [blank |-> TRUE, entry |-> <<>>]

RECURSIVE Join(_)
\* line 173: "\n\n".join(bibtex_entries)
Join(entries) ==
    IF entries = <<>> THEN <<>>
    ELSE IF Len(entries) = 1 THEN <<EntryChunk(entries[1])>>
    ELSE <<EntryChunk(entries[1]), BlankLine>> \o Join(Tail(entries))

-----------------------------------------------------------------------------
(* What the outside world can hand to the program *)

\* _data/socials.yml, lines 11-25: absent file, a file open() cannot read,
\* invalid YAML, a document that is not a mapping (empty file, list, scalar),
\* a mapping without the key, an empty value, a usable value
Configs ==
    {"missing", "unreadable", "yaml_error", "not_mapping", "key_absent", "key_empty", "ok"}

\* marks a key that the fetched dict does not have
Absent == <<"absent">>
DictOf(f) == [k \in {x \in DOMAIN f : f[x] # Absent} |-> f[k]]
BibKeys == {"ENTRYTYPE", "ID", "title", "pub_year", "doi", "journal", "conference",
            "publisher", "abbr", "pdf", "video", "inspirehep_id", "author"}
TopKeys == {"pub_url", "author_pub_id", "pub_id"}
\* a publication as scholarly returns it: the bib dict and the other keys
MkPub(b, t) == [bib |-> DictOf(b), top |-> DictOf(t)]
NoBib == [k \in BibKeys |-> IF k = "author" THEN <<"A"," ","B">> ELSE Absent]
NoTop == [k \in TopKeys |-> Absent]

Titles ==
    {Absent, NoneVal, <<"G","r","a","p","h"," ","n","e","t","s">>,
     <<"O","n"," ","R","i","v","e","r"," ","D","e","b","r","i","s"," ","D","e","t","e","c","t","i","o","n",","," ","a"," ","s","u","r","v","e","y">>,
     <<"I","n","t","r","u","s","i","o","n"," ","D","e","t","e","c","t","i","o","n"," ","i","n"," ","S","o","f","t","w","a","r","e","-","D","e","f","i","n","e","d"," ","N","e","t","w","o","r","k","s">>,
     <<"P","R","I","S","M",":"," ","P","e","r","i","o","d","i","c"," ","R","e","p","r","e","s","e","n","t","a","t","i","o","n"," ","w","i","t","h"," ","M","u","l","t","i","s","c","a","l","e">>,
     <<"G","a","r","b","a","g","e"," ","a","n","d"," ","d","e","b","r","i","s"," ","i","d","e","n","t","i","f","i","c","a","t","i","o","n">>}
Urls ==
    {Absent, NoneVal,
     <<"h","t","t","p","s",":","/","/","d","o","i",".","o","r","g","/","1","0",".","1","0","1","6","/","j",".","j","a","g",".","2","0","2","1",".","1","0","2","6","8","2">>,
     <<"h","t","t","p","s",":","/","/","p","u","b","s",".","r","s","c",".","o","r","g","/","e","n","/","d","4","d","d","0","0","3","5","2","g">>,
     <<"h","t","t","p","s",":","/","/","p","u","b","s",".","r","s","c",".","o","r","g","/","e","n","/","d","4","-","d","d">>,
     <<"h","t","t","p","s",":","/","/","p","u","b","s",".","r","s","c",".","o","r","g","/","1","0",".","1","0","3","9","/","d","4","d","d","0","0","3","5","2","g">>,
     <<"h","t","t","p","s",":","/","/","a",".","o","r","g","/","1","0",".","1","2","3","/","a","b","c">>,
     <<"h","t","t","p","s",":","/","/","a",".","o","r","g","/","p","a","p","e","r">>}
Dois == {Absent, <<>>, <<"1","0",".","5","5","5","5","/","o","r","i","g">>}
AuthorPubIds == {Absent, <<>>, <<"A","u",":","p","1">>, <<"A","u",":","p","1",":","x">>, <<"p","2">>}
PubIds == {Absent, <<"q","9">>}
Journals ==
    {Absent, <<>>, NoneVal,
     <<"a","r","X","i","v"," ","p","r","e","p","r","i","n","t"," ","a","r","X","i","v",":","2","1","0","1",".","1">>,
     <<"J","o","u","r","n","a","l"," ","o","f"," ","A","R","X","I","V"," ","n","o","t","e","s">>,
     <<"I","n","s","t","i","t","u","t","e"," ","o","f"," ","E","l","e","c","t","r","i","c","a","l"," ","a","n","d"," ","E","l","e","c","t","r","o","n","i","c","s"," ","E","n","g","i","n","e","e","r","s">>,
     <<"p","r","o","c","e","e","d","i","n","g","s"," ","o","f"," ","t","h","e"," ","3","r","d"," ","w","o","r","k","s","h","o","p">>,
     <<"A"," ","B","b"," "," ","C"," ","d"," ","E"," ","F"," ","G"," ","H"," ","I"," ","J"," ","K"," ","L">>,
     <<"A"," ","B"," ","C"," ","D"," ","E"," ","F"," ","G"," ","H"," ","I"," ","J">>}
Conferences == {Absent, <<"P","r","o","c"," ","o","f"," ","I","C","M","L">>}
Publishers == {Absent, <<"A","C","M"," ","P","r","e","s","s">>}

\* records that exercise the DOI steps
DoiPubs ==
    {MkPub([NoBib EXCEPT !["title"] = t, !["doi"] = d], [NoTop EXCEPT !["pub_url"] = u]) :
        t \in Titles, d \in Dois, u \in Urls}
\* records that exercise the entry type, key and google_scholar_id steps
IdPubs ==
    {MkPub([NoBib EXCEPT !["title"] = t, !["ENTRYTYPE"] = e, !["ID"] = i],
           [NoTop EXCEPT !["author_pub_id"] = a, !["pub_id"] = p]) :
        t \in {Absent, <<"G","r","a","p","h"," ","n","e","t","s">>}, e \in {Absent, <<"i","n","p","r","o","c","e","e","d","i","n","g","s">>},
        i \in {Absent, <<"k","e","y","1">>}, a \in AuthorPubIds, p \in PubIds}
\* records that exercise the exclusion and abbreviation steps
VenuePubs ==
    {MkPub([NoBib EXCEPT !["journal"] = j, !["conference"] = c, !["publisher"] = p,
                         !["abbr"] = a, !["pdf"] = x, !["video"] = v, !["inspirehep_id"] = v],
           NoTop) :
        j \in Journals, c \in Conferences, p \in Publishers, a \in {Absent, <<"O","L","D">>},
        x \in {Absent, <<"a",".","p","d","f">>}, v \in {Absent, <<"1">>}}
RichPubs == DoiPubs \cup IdPubs \cup VenuePubs

\* records for the lists of several publications: equal, different, missing
\* and unparseable years; with and without identifiers; one that cannot be
\* enriched
SmallPubs ==
    {MkPub([NoBib EXCEPT !["title"] = <<"A">>, !["pub_year"] = <<"2","0","2","1">>], [NoTop EXCEPT !["author_pub_id"] = <<"A","u",":","p","1">>]),
     MkPub([NoBib EXCEPT !["title"] = <<"B">>, !["pub_year"] = <<"2","0","2","1">>, !["pdf"] = <<"b",".","p","d","f">>], [NoTop EXCEPT !["author_pub_id"] = <<"A","u",":","p","2">>]),
     MkPub([NoBib EXCEPT !["title"] = <<"C">>, !["pub_year"] = <<" ","2","0","1","9">>], NoTop),
     MkPub([NoBib EXCEPT !["title"] = NoneVal, !["pub_year"] = <<"n",".","d",".">>], [NoTop EXCEPT !["author_pub_id"] = <<"A","u",":","p","4">>]),
     MkPub(NoBib, NoTop),
     MkPub([NoBib EXCEPT !["title"] = <<"F">>, !["pub_year"] = <<"2","0","2","3">>, !["ID"] = <<"k","1">>, !["ENTRYTYPE"] = <<"i","n","p","r","o","c","e","e","d","i","n","g","s">>], NoTop)}

SeqsUpTo(n, S) == UNION {[1..k -> S] : k \in 0..n}
\* the publication lists the author fetch may return
PubLists == SeqsUpTo(MaxPubs, SmallPubs) \cup {<<r>> : r \in RichPubs}

-----------------------------------------------------------------------------
(* The program *)

NoExit == -1
\* _bibliography/papers.bib: left from an earlier run, truncated by open(), or
\* holding this run's document
OldFile == [state |-> "old", text |-> <<>>]

Init ==
    /\ pc = "load_config"
    /\ config \in Configs
    /\ hash_seed \in 0..MaxSeed
    /\ fetched = <<>>
    /\ publications = <<>>
    /\ idx = 1
    /\ bibtex_entries = <<>>
    /\ outcomes = <<>>
    /\ calls = <<>>
    /\ output_file = OldFile
    /\ write_attempted = FALSE
    /\ exit_code = NoExit
    /\ env = [author |-> "pending", write |-> "pending"]

\* status of sys.exit(1), and of an exception nobody catches
Exit(code) == pc' = "done" /\ exit_code' = code

\* lines 9-25 (called at line 28): sys.exit(1) for a missing file, a YAML
\* error and a missing or empty key; open() on an unreadable file raises
\* OSError and config.get on a non-mapping raises AttributeError, which
\* nothing catches: the interpreter ends with status 1
load_scholar_user_id ==
    /\ pc = "load_config"
    /\ IF config = "ok"
       THEN pc' = "fetch_author" /\ exit_code' = exit_code
       ELSE Exit(1)
    /\ UNCHANGED <<config, hash_seed, fetched, publications, idx, bibtex_entries,
                   outcomes, calls, output_file, write_attempted, env>>

\* lines 33-38
FetchAuthor ==
    /\ pc = "fetch_author"
    /\ \/ /\ env' = [env EXCEPT !.author = "failed"]
          /\ Exit(1)
          /\ UNCHANGED <<fetched, publications>>
       \/ /\ env' = [env EXCEPT !.author = "ok"]
          /\ \E pubs \in PubLists : fetched' = pubs /\ publications' = pubs
          /\ pc' = "check_publications"
          /\ exit_code' = exit_code
    /\ UNCHANGED <<config, hash_seed, idx, bibtex_entries, outcomes, calls,
                   output_file, write_attempted>>

\* no early return: an empty list goes on to the write
NoPublicationsFallsThrough ==
    /\ pc = "check_publications"
    /\ publications = <<>>
    /\ pc' = "write"
    /\ UNCHANGED <<config, hash_seed, fetched, publications, idx, bibtex_entries,
                   outcomes, calls, output_file, write_attempted, exit_code, env>>

\* lines 40-42: return from update_bibtex, the process ends with status 0
NoPublications ==
    /\ pc = "check_publications"
    /\ publications = <<>>
    /\ Exit(0)
    /\ UNCHANGED <<config, hash_seed, fetched, publications, idx, bibtex_entries,
                   outcomes, calls, output_file, write_attempted, env>>

\* lines 44-54
SortPublications ==
    /\ pc = "check_publications"
    /\ publications # <<>>
    /\ publications' = SortByYear(publications)
    /\ bibtex_entries' = <<>>
    /\ idx' = 1
    /\ pc' = "loop"
    /\ UNCHANGED <<config, hash_seed, fetched, outcomes, calls, output_file,
                   write_attempted, exit_code, env>>

\* the for statement moves to the next pub, or to line 170 after the last
NextPub ==
    /\ idx' = idx + 1
    /\ pc' = IF idx + 1 > Len(publications) THEN "write" ELSE "loop"

\* a handler that keeps what the failed record had after the backfill
SkipKeepsPartial(why) ==
    /\ outcomes' = Append(outcomes, why)
    /\ bibtex_entries' = Append(bibtex_entries,
            Serialize(BackfillId(BackfillEntryType(publications[idx]), hash_seed)))

\* lines 164-168: the handler of the loop body
Skip(why) ==
    /\ outcomes' = Append(outcomes, why)
    /\ bibtex_entries' = bibtex_entries

\* line 59 raises
FillFails ==
    /\ Skip("fill_failed")
    /\ calls' = calls

\* one of lines 61-157 raises
EnrichFails ==
    /\ EnrichRaises(publications[idx], hash_seed)
    /\ Skip("enrich_failed")
    /\ calls' = calls

\* line 160 raises
SerializeFails ==
    /\ ~EnrichRaises(publications[idx], hash_seed)
    /\ calls' = Append(calls, [idx |-> idx, filled |-> publications[idx],
                               pub |-> Enrich(publications[idx], hash_seed)])
    /\ Skip("serialize_failed")

\* lines 59-162 without an exception
Processed ==
    /\ ~EnrichRaises(publications[idx], hash_seed)
    /\ ~SerializeRaises(Enrich(publications[idx], hash_seed))
    /\ calls' = Append(calls, [idx |-> idx, filled |-> publications[idx],
                               pub |-> Enrich(publications[idx], hash_seed)])
    /\ bibtex_entries' = Append(bibtex_entries, Serialize(Enrich(publications[idx], hash_seed)))
    /\ outcomes' = Append(outcomes, "ok")

\* lines 56-168: one iteration of the loop
ProcessPublication ==
    /\ pc = "loop"
    /\ idx <= Len(publications)
    /\ (FillFails \/ EnrichFails \/ SerializeFails \/ Processed)
    /\ NextPub
    /\ UNCHANGED <<config, hash_seed, fetched, publications, output_file,
                   write_attempted, exit_code, env>>

\* lines 170-177: open() may fail, and so may write() after open() has
\* truncated the file
WriteOutput ==
    /\ pc = "write"
    /\ write_attempted' = TRUE
    /\ \/ /\ env' = [env EXCEPT !.write = "ok"]
          /\ output_file' = [state |-> "written", text |-> Join(bibtex_entries)]
          /\ Exit(0)
       \/ /\ env' = [env EXCEPT !.write = "failed"]
          /\ output_file' \in {output_file, [state |-> "truncated", text |-> <<>>]}
          /\ Exit(1)
    /\ UNCHANGED <<config, hash_seed, fetched, publications, idx, bibtex_entries,
                   outcomes, calls>>

Next ==
    \/ load_scholar_user_id
    \/ FetchAuthor
    \/ NoPublications
    \/ SortPublications
    \/ ProcessPublication
    \/ WriteOutput

Spec == Init /\ [][Next]_vars

-----------------------------------------------------------------------------
(* Claims *)

Started == env.author = "ok" /\ pc \in {"loop", "write", "done"} /\ publications # <<>>

\* indices of the processed pubs whose iteration completed every step
OkIndices == {i \in 1..Len(outcomes) : outcomes[i] = "ok"}
\* the k-th smallest element of a finite set of integers
Nth(S, k) == CHOOSE i \in S : Cardinality({j \in S : j <= i}) = k
\* what the completed records serialize to, in processing order
ExpectedEntries ==
    [k \in 1..Cardinality(OkIndices) |->
        Serialize(Enrich(publications[Nth(OkIndices, k)], hash_seed))]

\* C1: whatever records fail (detail fetch, an enrichment step, the
\* serializer), the loop goes on to the next record until all are processed;
\* the collected entries are exactly the serialized forms of the records that
\* completed every step, in processing order; the written document is those
\* entries with one blank line between neighbours and nothing else, so it has
\* at most as many records as the fetched list.
C1_SkipFailedRecords ==
    Started =>
        /\ Len(outcomes) = idx - 1
        /\ (pc = "loop") = (idx <= Len(publications))
        /\ bibtex_entries = ExpectedEntries
        /\ Len(bibtex_entries) <= Len(fetched)
        /\ output_file.state = "written" =>
              LET n == Len(ExpectedEntries)
                  doc == output_file.text
              IN /\ Len(outcomes) = Len(fetched)
                 /\ Len(doc) = IF n = 0 THEN 0 ELSE 2 * n - 1
                 /\ \A k \in 1..n : doc[2 * k - 1] = EntryChunk(ExpectedEntries[k])
                 /\ \A k \in 1..(n - 1) : doc[2 * k] = BlankLine

\* C1 witness: a written document of a run in which a record failed in an
\* enrichment step and the record after it was kept
C1_Witness ==
    /\ output_file.state = "written"
    /\ \E i, j \in 1..Len(outcomes) :
          /\ i < j
          /\ outcomes[i] = "enrich_failed"
          /\ outcomes[j] = "ok"
    /\ Len(output_file.text) = 1

\* the configurations for which load_scholar_user_id does not return
BadConfig ==
    config \in {"missing", "unreadable", "yaml_error", "not_mapping", "key_absent", "key_empty"}

\* C2: the exit status is non-zero exactly when the configuration is missing,
\* unparseable or without a non-empty identifier, when the author fetch fails
\* or when the write fails; every other finished run has status 0, also when
\* records failed one by one, and a run with no publications ends with
\* status 0 without attempting the write.
C2_ExitStatus ==
    /\ (pc = "done") = (exit_code # NoExit)
    /\ pc = "done" =>
          /\ exit_code \in {0, 1}
          /\ (exit_code # 0) = (BadConfig \/ env.author = "failed" \/ env.write = "failed")
          /\ (env.author = "ok" /\ fetched = <<>>) =>
                (exit_code = 0 /\ ~write_attempted /\ output_file = OldFile)

\* C2 witness: a finished run with status 0 in which every record failed
C2_Witness ==
    /\ pc = "done"
    /\ exit_code = 0
    /\ Len(outcomes) >= 2
    /\ \A i \in 1..Len(outcomes) : outcomes[i] # "ok"

\* C2 witness of the early exit: no publications, status 0, no write
C2_WitnessEmpty == pc = "done" /\ env.author = "ok" /\ fetched = <<>> /\ exit_code = 0

\* the year of a summary: its pub_year read as a decimal integer, 0 when the
\* field is missing or is not a number
HasYear(pub) == Has(pub.bib, "pub_year") /\ IsStr(pub.bib["pub_year"]) /\ IntParses(pub.bib["pub_year"])
YearOf(pub) == IF HasYear(pub) THEN IntValue(pub.bib["pub_year"]) ELSE 0
Orderings(n) == {p \in [1..n -> 1..n] : \A i, j \in 1..n : i # j => p[i] # p[j]}

\* C3: the list the loop walks is the fetched list reordered by year
\* descending, a missing or unparseable year counting as 0 and so coming
\* last, records of equal year in fetch order; records reach the serializer
\* in that order and the collected entries are non-increasing by year.
C3_SortedByYearDescending ==
    Started =>
        /\ \E p \in Orderings(Len(fetched)) :
              /\ Len(publications) = Len(fetched)
              /\ \A i \in 1..Len(fetched) : publications[i] = fetched[p[i]]
              /\ \A i, j \in 1..Len(fetched) :
                    i < j => \/ YearOf(fetched[p[i]]) > YearOf(fetched[p[j]])
                             \/ /\ YearOf(fetched[p[i]]) = YearOf(fetched[p[j]])
                                /\ p[i] < p[j]
        /\ \A i, j \in 1..Len(publications) :
              (i < j /\ ~HasYear(publications[i])) => YearOf(publications[j]) = 0
        /\ \A i, j \in 1..Len(calls) :
              i < j => /\ calls[i].idx < calls[j].idx
                       /\ calls[i].filled = publications[calls[i].idx]
        /\ \A i, j \in 1..Len(bibtex_entries) :
              i < j => YearOf([bib |-> bibtex_entries[i].fields])
                          >= YearOf([bib |-> bibtex_entries[j].fields])

\* C3 witness: a record without a parseable year fetched first and emitted
\* last
C3_Witness ==
    /\ pc = "write"
    /\ Len(bibtex_entries) = 2
    /\ publications # fetched
    /\ ~HasYear(fetched[1])
    /\ HasYear(fetched[2])

\* C3 witness of the tie: two different records of the same year emitted in
\* fetch order
C3_WitnessTie ==
    /\ pc = "write"
    /\ Len(bibtex_entries) = 2
    /\ fetched[1] # fetched[2]
    /\ HasYear(fetched[1])
    /\ YearOf(fetched[1]) = YearOf(fetched[2])

\* the serializer calls made so far
Calls == {calls[i] : i \in 1..Len(calls)}
RiverDoi == <<"1","0",".","1","0","1","6","/","j",".","j","a","g",".","2","0","2","2",".","1","0","2","6","8","2">>
TitleMentionsRiver(pub) ==
    /\ Has(pub.bib, "title")
    /\ IsStr(pub.bib["title"])
    /\ Contains(Lower(pub.bib["title"]), <<"r","i","v","e","r"," ","d","e","b","r","i","s"," ","d","e","t","e","c","t","i","o","n">>)
\* a DOI-shaped substring can be read off the source URL
UrlHoldsDoi(pub) == Has(pub.top, "pub_url") /\ doi_match(pub.top["pub_url"]) # NoneVal
\* the source URL is an RSC landing page whose last path segment is alphanumeric
UrlIsRscPage(pub) == Has(pub.top, "pub_url") /\ RscDoi(pub.top["pub_url"]) # NoneVal

\* C4: a record fetched with a doi field reaches the serializer with that
\* same doi, whatever its source URL and title.
C4_FetchedDoiKept ==
    \A c \in Calls :
        Has(c.filled.bib, "doi") =>
            (Has(c.pub.bib, "doi") /\ c.pub.bib["doi"] = c.filled.bib["doi"])

\* C4 witness: a serialized record fetched with a DOI, whose URL holds another
\* DOI and whose title has a manual override
C4_Witness ==
    \E c \in Calls :
        /\ Has(c.filled.bib, "doi")
        /\ UrlHoldsDoi(c.filled)
        /\ TitleMentionsRiver(c.filled)
        /\ c.filled.bib["doi"] # RiverDoi

\* C5 as claimed: a record whose title contains "river debris detection"
\* (case-insensitively) and that has no DOI anywhere, neither as a field nor
\* in its source URL, gets the DOI 10.1016/j.jag.2022.102682 whatever its
\* source URL is.
C5_Original ==
    \A c \in Calls :
        (TitleMentionsRiver(c.filled) /\ ~Has(c.filled.bib, "doi") /\ ~UrlHoldsDoi(c.filled))
            => (Has(c.pub.bib, "doi") /\ c.pub.bib["doi"] = RiverDoi)

\* C5 amended: a record whose title contains "river debris detection"
\* (case-insensitively), that has no doi field, whose source URL holds no
\* DOI-shaped substring and is not an RSC landing page with an alphanumeric
\* last segment, gets the DOI 10.1016/j.jag.2022.102682; for the RSC page the
\* DOI is 10.1039/<segment uppercased> and the override does not apply.
C5_RiverOverride ==
    \A c \in Calls :
        (TitleMentionsRiver(c.filled) /\ ~Has(c.filled.bib, "doi") /\ ~UrlHoldsDoi(c.filled))
            => /\ Has(c.pub.bib, "doi")
               /\ ~UrlIsRscPage(c.filled) => c.pub.bib["doi"] = RiverDoi
               /\ UrlIsRscPage(c.filled) =>
                     LET parts == SplitOn(c.filled.top["pub_url"], "/")
                     IN c.pub.bib["doi"] = <<"1","0",".","1","0","3","9","/">> \o Upper(parts[Len(parts)])

\* C5 witness: the override applied to a mixed-case title of a record that
\* has a source URL without a DOI
C5_Witness ==
    \E c \in Calls :
        /\ TitleMentionsRiver(c.filled)
        /\ c.filled.bib["title"] # Lower(c.filled.bib["title"])
        /\ ~Has(c.filled.bib, "doi")
        /\ Has(c.filled.top, "pub_url")
        /\ c.pub.bib["doi"] = RiverDoi

\* C6: every field name of the fetched record other than pdf, video and
\* inspirehep_id is a field name of the record handed to the serializer, and
\* that record has none of the three.
C6_OnlyExcludedFieldsRemoved ==
    \A c \in Calls :
        /\ (DOMAIN c.filled.bib) \ {"pdf", "video", "inspirehep_id"} \subseteq DOMAIN c.pub.bib
        /\ (DOMAIN c.pub.bib) \cap {"pdf", "video", "inspirehep_id"} = {}

\* C6 witness: a serialized record fetched with all three excluded fields
\* and with an abbreviation of its own
C6_Witness ==
    \E c \in Calls :
        /\ {"pdf", "video", "inspirehep_id", "abbr", "journal"} \subseteq DOMAIN c.filled.bib
        /\ Has(c.pub.bib, "abbr")

\* the venue: the first non-empty of journal, conference, publisher
VenueKeys == <<"journal", "conference", "publisher">>
NonEmptyVenueKeys(pub) == {i \in 1..3 : Has(pub.bib, VenueKeys[i]) /\ Truthy(pub.bib[VenueKeys[i]])}
\* positions where a whitespace-separated word starts with an uppercase letter
CapitalStarts(v) ==
    {i \in 1..Len(v) : IsUpper(v[i]) /\ (i = 1 \/ v[i - 1] \in Whitespace)}
MentionsArxiv(v) ==
    \E i \in 0..(Len(v) - 5) :
        /\ v[i + 1] \in {"a", "A"}
        /\ v[i + 2] \in {"r", "R"}
        /\ v[i + 3] \in {"x", "X"}
        /\ v[i + 4] \in {"i", "I"}
        /\ v[i + 5] \in {"v", "V"}
SameAbbr(before, after) ==
    /\ Has(before.bib, "abbr") = Has(after.bib, "abbr")
    /\ Has(before.bib, "abbr") => before.bib["abbr"] = after.bib["abbr"]

\* C7: without a non-empty journal, conference or publisher the abbreviation
\* is not set; else the venue is the first non-empty of the three in that
\* order, and the abbreviation is "arXiv" when the venue contains "arxiv" in
\* any case, and otherwise the first characters of the whitespace-separated
\* words that start with an uppercase letter, cut to 10 characters, stored
\* only when there is at least one; "Institute of Electrical and
\* Electronics Engineers" gives "IEEE".
C7_Abbreviation ==
    /\ \A c \in Calls :
        IF NonEmptyVenueKeys(c.filled) = {} THEN SameAbbr(c.filled, c.pub)
        ELSE LET v == c.filled.bib[VenueKeys[Nth(NonEmptyVenueKeys(c.filled), 1)]]
                 caps == CapitalStarts(v)
                 n == IF Cardinality(caps) > 10 THEN 10 ELSE Cardinality(caps)
             IN IF MentionsArxiv(v) THEN c.pub.bib["abbr"] = <<"a","r","X","i","v">>
                ELSE IF caps = {} THEN SameAbbr(c.filled, c.pub)
                ELSE c.pub.bib["abbr"] = [k \in 1..n |-> v[Nth(caps, k)]]
    /\ \A c \in Calls :
        (Has(c.filled.bib, "journal")
         /\ c.filled.bib["journal"] = <<"I","n","s","t","i","t","u","t","e"," ","o","f"," ","E","l","e","c","t","r","i","c","a","l"," ","a","n","d"," ","E","l","e","c","t","r","o","n","i","c","s"," ","E","n","g","i","n","e","e","r","s">>)
            => c.pub.bib["abbr"] = <<"I","E","E","E">>

\* C7 witness: an abbreviation cut to 10 characters
C7_Witness ==
    \E c \in Calls :
        /\ Has(c.filled.bib, "journal")
        /\ Cardinality(CapitalStarts(c.filled.bib["journal"])) > 10
        /\ Len(c.pub.bib["abbr"]) = 10

\* C8: every record handed to the serializer has an entry type and a record
\* key, and no two records serialized in one run have the same key.
C8_KeysPresentAndUnique ==
    /\ \A c \in Calls : Has(c.pub.bib, "ENTRYTYPE") /\ Has(c.pub.bib, "ID")
    /\ \A i, j \in 1..Len(bibtex_entries) :
          i # j => bibtex_entries[i].key # bibtex_entries[j].key

\* the part of s after its first ":"
AfterFirstColon(s) ==
    LET k == CHOOSE i \in 1..Len(s) : s[i] = ":" /\ \A j \in 1..(i - 1) : s[j] # ":"
    IN SubSeq(s, k + 1, Len(s))
HasColon(s) == \E i \in 1..Len(s) : s[i] = ":"
ExternalId(pub) == GetOr(pub.top, "author_pub_id", <<>>)

\* C9: google_scholar_id is everything after the first ":" of the external
\* identifier when it has one or several ":", the identifier itself when it
\* has none, and is not set when there is no external identifier.
C9_ScholarIdAfterFirstSeparator ==
    \A c \in Calls :
        IF ~Truthy(ExternalId(c.filled)) THEN ~Has(c.pub.bib, "google_scholar_id")
        ELSE IF HasColon(ExternalId(c.filled))
             THEN c.pub.bib["google_scholar_id"] = AfterFirstColon(ExternalId(c.filled))
             ELSE c.pub.bib["google_scholar_id"] = ExternalId(c.filled)

\* C10 as claimed: a missing record key becomes the publication-id component
\* of the external identifier <authorId>:<publicationId> when there is one,
\* else "pub_" and a hash of the title; a fetched key is kept.
C10_Original ==
    \A c \in Calls :
        IF Has(c.filled.bib, "ID") THEN c.pub.bib["ID"] = c.filled.bib["ID"]
        ELSE IF Truthy(ExternalId(c.filled)) /\ HasColon(ExternalId(c.filled))
             THEN c.pub.bib["ID"] = AfterFirstColon(ExternalId(c.filled))
             ELSE TRUE

\* C10 amended: a missing record key becomes the whole external identifier
\* author_pub_id (authorId, ":" and publicationId, not the publication-id
\* component alone) when it is non-empty, else pub_id when that is non-empty,
\* else "pub_" followed by the decimal absolute value of the hash of the
\* title; a fetched key is kept.
C10_KeyBackfill ==
    \A c \in Calls :
        IF Has(c.filled.bib, "ID") THEN c.pub.bib["ID"] = c.filled.bib["ID"]
        ELSE IF Truthy(ExternalId(c.filled)) THEN c.pub.bib["ID"] = ExternalId(c.filled)
        ELSE IF Truthy(GetOr(c.filled.top, "pub_id", <<>>)) THEN c.pub.bib["ID"] = c.filled.top["pub_id"]
        ELSE /\ Len(c.pub.bib["ID"]) > 4
             /\ SubSeq(c.pub.bib["ID"], 1, 4) = <<"p","u","b","_">>
             /\ \A i \in 5..Len(c.pub.bib["ID"]) : IsDigit(c.pub.bib["ID"][i])
             /\ DigitsValue(SubSeq(c.pub.bib["ID"], 5, Len(c.pub.bib["ID"])))
                    = Abs(Hash(Get(c.filled.bib, "title"), hash_seed))

\* C10 witness: a key backfilled from a two-part external identifier
C10_Witness ==
    \E c \in Calls :
        /\ ~Has(c.filled.bib, "ID")
        /\ HasColon(ExternalId(c.filled))
        /\ c.pub.bib["ID"] = ExternalId(c.filled)

=============================================================================
